---- MODULE Spec2Model ----
(***************************************************************************)
(* The crash-data populator (backend/populator/main.py): the Lambda        *)
(* handler that resets the project database, creates the four destination  *)
(* tables and loads each CSV object through a staging table, together with *)
(* the SQL of the merge statements it issues.                              *)
(*                                                                         *)
(* CSV text is a sequence of one-character strings, so that the casts of   *)
(* the merge statements are computed from the text.  A nullable SQL value  *)
(* is a sequence of length at most one: <<>> is NULL, <<v>> is the value v.*)
(* Each table carries its key column and a few columns that stand for the  *)
(* kinds of column the table has (text, integer, boolean, coordinates).    *)
(***************************************************************************)
EXTENDS Integers, Sequences, FiniteSets, TLC

VARIABLES
    db,         \* the cluster's project database
    dataset,    \* the CSV objects of the data bucket, one per destination table
    source,     \* the CSV objects at SOURCE_DATA_BUCKET / SOURCE_DATA_KEY
    cakeys,     \* CA_DATA_KEYS, the comma-split configuration value
    clusterId,  \* TRUE when CLUSTER_IDENTIFIER is set
    pc,         \* the handler's position
    request,    \* RequestType of the invocation
    caIdx,      \* position of load_california_datasets in CA_TABLE_MAPPING
    pending,    \* the exception raised inside the try block of a load
    err,        \* the exception that left the handler
    result,     \* what the last invocation did: its status, or "raised"
    log,        \* the statements this invocation has issued
    injected,   \* TRUE when a transport fault hit this invocation
    faults,     \* transport faults so far
    runs,       \* invocations so far
    prev,       \* the invocation before this one: its result, the database it left
    lastMerge,  \* the last merge statement executed (merge specification)
    env,        \* the names of the environment variables that are set
    event,      \* the event of the invocation
    physical_resource_id,  \* the PhysicalResourceId the invocation answers with
    other,      \* a second invocation in progress, while it does not run
    chat        \* the chat service: current_agent and its response streams

vars == <<db, dataset, source, cakeys, clusterId, pc, request, caIdx, pending, err,
          result, log, injected, faults, runs, prev, lastMerge, env, event,
          physical_resource_id, other, chat>>

\* ---------------------------------------------------------------- bounds

MaxRows == 2
MaxRuns == 2
MaxFaults == 2
MaxLoads == 2
MaxStreams == 2
MaxChunks == 2

\* ------------------------------------------------------------ SQL values

Null == <<>>
Some(v) == <<v>>

Digits == {"0", "1", "2", "3", "4", "5", "6", "7", "8", "9"}

DigitValue(c) ==
    CASE c = "0" -> 0 [] c = "1" -> 1 [] c = "2" -> 2 [] c = "3" -> 3
      [] c = "4" -> 4 [] c = "5" -> 5 [] c = "6" -> 6 [] c = "7" -> 7
      [] c = "8" -> 8 [] c = "9" -> 9

IsDigits(s) == Len(s) > 0 /\ \A i \in 1..Len(s) : s[i] \in Digits

RECURSIVE DigitsValue(_)
DigitsValue(s) ==
    IF s = <<>> THEN 0
    ELSE 10 * DigitsValue(SubSeq(s, 1, Len(s) - 1)) + DigitValue(s[Len(s)])

\* The text forms ::BIGINT, ::INTEGER and ::DOUBLE PRECISION accept, among the
\* texts of this model: an optional sign and decimal digits.
IsNumberText(s) == IsDigits(s) \/ (Len(s) > 1 /\ s[1] = "-" /\ IsDigits(Tail(s)))

ParseNumber(s) == IF s[1] = "-" THEN 0 - DigitsValue(Tail(s)) ELSE DigitsValue(s)

\* NULLIF(x, '')
NULLIF(s) == IF s = <<>> THEN Null ELSE Some(s)

\* NULLIF(x, '')::BIGINT and the other numeric casts; the cast of a text that
\* is no number raises, which CastOk tells.
CastOk(s) == s = <<>> \/ IsNumberText(s)
Cast(s) == IF s = <<>> THEN Null ELSE Some(ParseNumber(s))

TxtTrue == <<"T", "r", "u", "e">>

\* Variant of BoolOf: the comparison of a cast to BOOLEAN, which reads true
\* and 1 as true as well
BoolOfCast(s) ==
    IF s = <<>> THEN Null ELSE Some(s \in {TxtTrue, <<"t", "r", "u", "e">>, <<"1">>})

\* NULLIF(x, '') = 'True'
BoolOf(s) == IF s = <<>> THEN Null ELSE Some(s = TxtTrue)

SRID == 4326

\* ST_SetSRID(ST_MakePoint(x, y), 4326)
ST_MakePoint(x, y) == [srid |-> SRID, x |-> x, y |-> y]

\* Variant of Point: the coordinates in the order (latitude, longitude)
PointSwapped(lat, lon) ==
    IF NULLIF(lat) # Null /\ NULLIF(lon) # Null
    THEN Some(ST_MakePoint(ParseNumber(lat), ParseNumber(lon)))
    ELSE Null

\* CASE WHEN NULLIF(latitude, '') IS NOT NULL AND NULLIF(longitude, '') IS NOT NULL
\*      THEN ST_SetSRID(ST_MakePoint(longitude, latitude), 4326) ELSE NULL END
Point(lat, lon) ==
    IF NULLIF(lat) # Null /\ NULLIF(lon) # Null
    THEN Some(ST_MakePoint(ParseNumber(lon), ParseNumber(lat)))
    ELSE Null

\* ------------------------------------------------------------ the tables

Tables == {"nyc_crashes", "ca_crashes", "ca_injuredwitnesspassengers", "ca_parties"}

\* CA_TABLE_MAPPING, in the order the dictionary is iterated
CA_TABLE_MAPPING ==
    << [csv_file |-> "2025crashes.csv", table_name |-> "ca_crashes"],
       [csv_file |-> "2025injuredwitnesspassengers.csv",
        table_name |-> "ca_injuredwitnesspassengers"],
       [csv_file |-> "2025parties.csv", table_name |-> "ca_parties"] >>

CaTables == {CA_TABLE_MAPPING[i].table_name : i \in 1..Len(CA_TABLE_MAPPING)}

\* The column declared PRIMARY KEY in each CREATE TABLE
PrimaryKey(t) ==
    CASE t = "nyc_crashes" -> "collision_id"
      [] t = "ca_crashes" -> "collision_id"
      [] t = "ca_injuredwitnesspassengers" -> "injured_wit_pass_id"
      [] t = "ca_parties" -> "party_id"

\* The tables with a geometry(Point, 4326) column
HasLocation(t) == t \in {"nyc_crashes", "ca_crashes"}

\* The texts a CSV field takes in this model
KeyTexts == {<<>>, <<"1">>, <<"2">>}
AliasKeyTexts == KeyTexts \cup {<<"0", "1">>}
BoroughTexts == {<<>>, <<"Q">>}
NycLatTexts == {<<>>, <<"4", "0">>}
NycLonTexts == {<<>>, <<"-", "7", "3">>}
LocationTexts == {<<>>, <<"P">>}
CaLatTexts == {<<>>, <<"3", "4">>}
CaLonTexts == {<<>>, <<"-", "1", "1", "8">>}
FlagTexts ==
    {<<>>, TxtTrue, <<"t", "r", "u", "e">>, <<"1">>, <<"F", "a", "l", "s", "e">>}
AgeTexts == {<<>>, <<"3", "0">>, <<"x">>}

\* The rows a CSV object of table t can hold (the staging table's columns)
RawRows(t) ==
    CASE t = "nyc_crashes" ->
           [collision_id : KeyTexts, borough : BoroughTexts,
            latitude : NycLatTexts, longitude : NycLonTexts,
            location : LocationTexts]
      [] t = "ca_crashes" ->
           [collision_id : KeyTexts, latitude : CaLatTexts, longitude : CaLonTexts]
      [] t = "ca_injuredwitnesspassengers" ->
           [injured_wit_pass_id : KeyTexts, is_witness_only : FlagTexts]
      [] t = "ca_parties" ->
           [party_id : AliasKeyTexts, stated_age : AgeTexts]

SeqsUpTo(S, n) == UNION {[1..k -> S] : k \in 0..n}

Files(t) == SeqsUpTo(RawRows(t), MaxRows)

\* ------------------------------------------------- the merge statements

\* The SELECT list of the merge of table t, applied to one staging row
SelectList(t, r) ==
    CASE t = "nyc_crashes" ->
           [collision_id |-> Cast(r.collision_id),
            borough |-> NULLIF(r.borough),
            latitude |-> Cast(r.latitude),
            longitude |-> Cast(r.longitude),
            location |-> Point(r.latitude, r.longitude)]
      [] t = "ca_crashes" ->
           [collision_id |-> Cast(r.collision_id),
            latitude |-> Cast(r.latitude),
            longitude |-> Cast(r.longitude),
            location |-> Point(r.latitude, r.longitude)]
      [] t = "ca_injuredwitnesspassengers" ->
           [injured_wit_pass_id |-> Cast(r.injured_wit_pass_id),
            is_witness_only |-> BoolOf(r.is_witness_only)]
      [] t = "ca_parties" ->
           [party_id |-> Cast(r.party_id),
            stated_age |-> Cast(r.stated_age)]

\* Whether every cast of the SELECT list accepts the row's texts
SelectListOk(t, r) ==
    CASE t = "nyc_crashes" ->
           CastOk(r.collision_id) /\ CastOk(r.latitude) /\ CastOk(r.longitude)
      [] t = "ca_crashes" ->
           CastOk(r.collision_id) /\ CastOk(r.latitude) /\ CastOk(r.longitude)
      [] t = "ca_injuredwitnesspassengers" -> CastOk(r.injured_wit_pass_id)
      [] t = "ca_parties" -> CastOk(r.party_id) /\ CastOk(r.stated_age)

\* WHERE NULLIF(<key>, '') IS NOT NULL: the merge of ca_crashes has no WHERE
Where(t, r) ==
    IF t = "ca_crashes" THEN TRUE ELSE NULLIF(r[PrimaryKey(t)]) # Null

\* Variant of KeyNotNull: the key of ca_crashes declared UNIQUE, which admits
\* NULL, instead of PRIMARY KEY
KeyUniqueOnly(t) == t # "ca_crashes"

\* <key> BIGINT PRIMARY KEY: the key column is NOT NULL
KeyNotNull(t) == t \in Tables

\* Variant of OnConflict: every merge ends in DO UPDATE
OnConflictUpdate(t) == "update"

\* Variant of OnConflict: every merge ends in DO NOTHING
OnConflictNothing(t) == "nothing"

\* ON CONFLICT (<key>) DO UPDATE SET ... / DO NOTHING
OnConflict(t) == IF t = "nyc_crashes" THEN "update" ELSE "nothing"

KeyOf(t, row) == row[PrimaryKey(t)]

Keys(t, rows) == {KeyOf(t, rows[i]) : i \in 1..Len(rows)}

IndexOfKey(t, rows, k) == CHOOSE i \in 1..Len(rows) : KeyOf(t, rows[i]) = k

\* Variant of PutRow: a table without key and a plain INSERT, every proposed
\* row is appended
PutRowKeyless(t, rows, row) == [conflict |-> FALSE, rows |-> Append(rows, row)]

\* One proposed row against the unique index of the primary key: a row whose
\* key is stored is in conflict (the ON CONFLICT clause decides), any other
\* row is appended.
PutRow(t, rows, row) ==
    IF KeyOf(t, row) # Null /\ KeyOf(t, row) \in Keys(t, rows)
    THEN [conflict |-> TRUE, rows |-> rows]
    ELSE [conflict |-> FALSE, rows |-> Append(rows, row)]

\* DO UPDATE SET c = EXCLUDED.c for every column c but the key
DoUpdate(t, rows, row) ==
    [rows EXCEPT ![IndexOfKey(t, rows, KeyOf(t, row))] = row]

\* INSERT INTO t SELECT ... : the proposed rows in scan order.  written is the
\* set of keys this statement has inserted or updated; DO UPDATE may not
\* touch a row a second time.  The statement is atomic: ok = FALSE leaves the
\* table as it was.
RECURSIVE InsertRows(_, _, _, _)
InsertRows(t, rows, proposed, written) ==
    IF proposed = <<>> THEN [ok |-> TRUE, rows |-> rows]
    ELSE LET row == Head(proposed)
             k == KeyOf(t, row)
             put == PutRow(t, rows, row)
         IN  IF k = Null /\ KeyNotNull(t) THEN [ok |-> FALSE, rows |-> rows]
             ELSE IF ~put.conflict
                  THEN InsertRows(t, put.rows, Tail(proposed), written \cup {k})
             ELSE IF OnConflict(t) = "nothing"
                  THEN InsertRows(t, rows, Tail(proposed), written)
             ELSE IF k \in written THEN [ok |-> FALSE, rows |-> rows]
             ELSE InsertRows(t, DoUpdate(t, rows, row), Tail(proposed),
                             written \cup {k})

Selected(t, staged) == SelectSeq(staged, LAMBDA r : Where(t, r))

MapSelectList(t, sel) == [i \in 1..Len(sel) |-> SelectList(t, sel[i])]

\* The merge statement of table t on the stored rows and the staging rows
Merge(t, rows, staged) ==
    LET sel == Selected(t, staged)
    IN  IF \E i \in 1..Len(sel) : ~SelectListOk(t, sel[i])
        THEN [ok |-> FALSE, rows |-> rows]
        ELSE LET res == InsertRows(t, rows, MapSelectList(t, sel), {})
             IN  [ok |-> res.ok, rows |-> IF res.ok THEN res.rows ELSE rows]

\* ---------------------------------------------------------- the database

\* Variant of Extensions: the spatial extension first
ExtensionsReversed == <<"postgis", "aws_s3">>

\* for extension in ("aws_s3", "postgis")
Extensions == <<"aws_s3", "postgis">>

EmptyTables == [t \in Tables |-> <<>>]

\* The cluster without the project database
NoDatabase ==
    [exists |-> FALSE, extensions |-> {}, tables |-> {}, rows |-> EmptyTables,
     staging |-> {}, staged |-> EmptyTables]

\* What CREATE DATABASE makes
NewDatabase == [NoDatabase EXCEPT !.exists = TRUE]

\* Variant of DropDatabase: the statement drops nothing
DropNothing(d) == d

\* DROP DATABASE IF EXISTS "<DATABASE_NAME>"
DropDatabase(d) == NoDatabase

\* The statement kinds execute_sql is called with
Statements ==
    {"terminate", "drop_database", "create_database", "create_extension",
     "create_table", "drop_staging", "create_staging", "import", "merge"}

\* What one statement does to the database when the Data API call goes
\* through: ok = FALSE is the SQL error, which leaves the database as it was.
\* a is the extension or the table the statement names.
Execute(stmt, a, d) ==
    LET Done(d2) == [ok |-> TRUE, db |-> d2]
        Failed == [ok |-> FALSE, db |-> d]
    IN  CASE stmt = "terminate" -> Done(d)
          [] stmt = "drop_database" -> Done(DropDatabase(d))
          [] stmt = "create_database" ->
               IF d.exists THEN Failed ELSE Done(NewDatabase)
          [] stmt = "create_extension" ->
               IF ~d.exists THEN Failed
               ELSE Done([d EXCEPT !.extensions = @ \cup {a}])
          [] stmt = "create_table" ->
               IF ~d.exists \/ (HasLocation(a) /\ "postgis" \notin d.extensions)
               THEN Failed
               ELSE Done([d EXCEPT !.tables = @ \cup {a}])
          [] stmt = "drop_staging" ->
               IF ~d.exists THEN Failed
               ELSE Done([d EXCEPT !.staging = @ \ {a}, !.staged[a] = <<>>])
          [] stmt = "create_staging" ->
               IF ~d.exists \/ a \in d.staging THEN Failed
               ELSE Done([d EXCEPT !.staging = @ \cup {a}])
          [] stmt = "import" ->
               IF ~d.exists \/ "aws_s3" \notin d.extensions \/ a \notin d.staging
               THEN Failed
               ELSE Done([d EXCEPT !.staged[a] = @ \o dataset[a]])
          [] stmt = "merge" ->
               IF ~d.exists \/ a \notin d.tables \/ a \notin d.staging THEN Failed
               ELSE LET m == Merge(a, d.rows[a], d.staged[a])
                    IN  IF m.ok THEN Done([d EXCEPT !.rows[a] = m.rows]) ELSE Failed

\* The database= argument of the statement's execute_sql call
Database(stmt) ==
    IF stmt \in {"terminate", "drop_database", "create_database"}
    THEN "postgres" ELSE "DATABASE_NAME"

\* Variant of Outcomes: the statements of an invocation run in one
\* transaction, which a failing statement rolls back
OutcomesRollback(stmt, a) ==
    LET e == Execute(stmt, a, db)
        back == [db EXCEPT !.tables = {}, !.rows = EmptyTables, !.staging = {},
                           !.staged = EmptyTables]
    IN  {[ok |-> e.ok, db |-> IF e.ok THEN e.db ELSE back,
          injected |-> FALSE, database |-> Database(stmt)]}
        \cup (IF faults < MaxFaults
              THEN {[ok |-> FALSE, db |-> back, injected |-> TRUE,
                     database |-> Database(stmt)]}
              ELSE {})

\* execute_sql: the statement's outcome, or a transport or permission fault of
\* the Data API call, which raises and leaves the database as it was
Outcomes(stmt, a) ==
    {[ok |-> Execute(stmt, a, db).ok, db |-> Execute(stmt, a, db).db,
      injected |-> FALSE, database |-> Database(stmt)]}
    \cup (IF faults < MaxFaults
          THEN {[ok |-> FALSE, db |-> db, injected |-> TRUE,
                 database |-> Database(stmt)]}
          ELSE {})

\* ---------------------------------------------------------- the handler

NoError == [at |-> "none", table |-> ""]

\* event.get("RequestType"): "None" is the event without one, as handler({}, {})
RequestTypes == {"Create", "Update", "Delete", "None"}

config == <<dataset, source, cakeys, clusterId>>

\* What no step of an invocation changes once the handler has started
kept == <<config, env, event, physical_resource_id, other, chat>>

\* The object_key parameter of the statement issued at here: NYC_DATA_KEY in
\* load_nyc_dataset, csv_file in import_california_csv_to_staging, none in a
\* statement that is no import
ObjectKey(here) ==
    CASE here = "nyc_import" -> "NYC_DATA_KEY"
      [] here = "ca_import" -> CA_TABLE_MAPPING[caIdx].csv_file
      [] OTHER -> ""

Issue(here, a, o) ==
    /\ db' = o.db
    /\ log' = Append(log, [at |-> here, table |-> a, ok |-> o.ok,
                            database |-> o.database, key |-> ObjectKey(here)])
    /\ faults' = IF o.injected THEN faults + 1 ELSE faults
    /\ injected' = (injected \/ o.injected)

Raise(e) == pc' = "idle" /\ result' = "raised" /\ err' = e

\* An event is a mapping or something else; a key the mapping lacks reads
\* "None"
NotAMapping == [mapping |-> FALSE, RequestType |-> "None", PhysicalResourceId |-> "None"]

NoEvent == [mapping |-> TRUE, RequestType |-> "None", PhysicalResourceId |-> "None"]

\* event.get("RequestType") if isinstance(event, dict) else None
request_type(e) == IF e.mapping THEN e.RequestType ELSE "None"

\* f"{CLUSTER_IDENTIFIER or 'crashes'}-populator"
DefaultResourceId == IF clusterId THEN "cluster-populator" ELSE "crashes-populator"

\* Variant of PhysicalResourceId: the default id whatever the event carries
PhysicalResourceIdFixed(e) == DefaultResourceId

\* (event.get("PhysicalResourceId") if isinstance(event, dict) else None)
\* or the default: None and the empty string are falsy
PhysicalResourceId(e) ==
    LET given == IF e.mapping THEN e.PhysicalResourceId ELSE "None"
    IN  IF given \in {"None", ""} THEN DefaultResourceId ELSE given

\* Variant of handler: only a Create request loads, any other request cleans up
handlerCreateOnly(e) ==
    /\ pc = "idle"
    /\ runs < MaxRuns
    /\ runs' = runs + 1
    /\ event' = e
    /\ request' = request_type(e)
    /\ physical_resource_id' = PhysicalResourceId(e)
    /\ pc' = IF request_type(e) = "Create" THEN "wait" ELSE "delete"
    /\ prev' = [result |-> result, db |-> db, id |-> physical_resource_id]
    /\ log' = <<>>
    /\ injected' = FALSE
    /\ pending' = NoError
    /\ err' = NoError
    /\ result' = "none"
    /\ caIdx' = 1
    /\ UNCHANGED <<db, config, env, other, chat, faults, lastMerge>>

\* handler, lines 45-56: the dispatch on RequestType
handler(e) ==
    /\ pc = "idle"
    /\ runs < MaxRuns
    /\ runs' = runs + 1
    /\ event' = e
    /\ request' = request_type(e)
    /\ physical_resource_id' = PhysicalResourceId(e)
    /\ pc' = IF request_type(e) = "Delete" THEN "delete" ELSE "wait"
    /\ prev' = [result |-> result, db |-> db, id |-> physical_resource_id]
    /\ log' = <<>>
    /\ injected' = FALSE
    /\ pending' = NoError
    /\ err' = NoError
    /\ result' = "none"
    /\ caIdx' = 1
    /\ UNCHANGED <<db, config, env, other, chat, faults, lastMerge>>

\* Variant of Plain: a statement that fails is issued again
PlainRetry(here, stmt, a, next) ==
    /\ pc = here
    /\ \E o \in Outcomes(stmt, a) :
         /\ Issue(here, a, o)
         /\ pc' = IF o.ok THEN next ELSE here
    /\ UNCHANGED <<kept, request, caIdx, pending, err, result, runs, prev, lastMerge>>

\* Variant of Plain: the error is logged and the handler goes on
PlainBestEffort(here, stmt, a, next) ==
    /\ pc = here
    /\ \E o \in Outcomes(stmt, a) : Issue(here, a, o)
    /\ pc' = next
    /\ UNCHANGED <<kept, request, caIdx, pending, err, result, runs, prev, lastMerge>>

\* A statement of the handler outside any try block: its error leaves the
\* handler
Plain(here, stmt, a, next) ==
    /\ pc = here
    /\ \E o \in Outcomes(stmt, a) :
         /\ Issue(here, a, o)
         /\ IF o.ok THEN pc' = next /\ UNCHANGED <<err, result>>
            ELSE Raise([at |-> here, table |-> a])
    /\ UNCHANGED <<kept, request, caIdx, pending, runs, prev, lastMerge>>

\* wait_for_cluster_available on the load path: skipped without
\* CLUSTER_IDENTIFIER; a waiter or client error leaves the handler
wait_for_cluster_available ==
    /\ pc = "wait"
    /\ \/ /\ pc' = "terminate"
          /\ UNCHANGED <<err, result, faults, injected>>
       \/ /\ clusterId
          /\ faults < MaxFaults
          /\ faults' = faults + 1
          /\ injected' = TRUE
          /\ Raise([at |-> "wait", table |-> ""])
    /\ UNCHANGED <<db, kept, request, caIdx, pending, log, runs, prev, lastMerge>>

terminate_database_connections == Plain("terminate", "terminate", "", "drop_database")

drop_database_if_exists == Plain("drop_database", "drop_database", "", "create_database")

ensure_database_exists == Plain("create_database", "create_database", "", "ext_1")

enable_extensions ==
    \E i \in 1..Len(Extensions) :
        Plain(IF i = 1 THEN "ext_1" ELSE "ext_2", "create_extension", Extensions[i],
              IF i = 1 THEN "ext_2" ELSE "create_nyc")

create_nyc_crashes_table ==
    Plain("create_nyc", "create_table", "nyc_crashes", "create_ca_1")

create_california_tables ==
    \E i \in 1..Len(CA_TABLE_MAPPING) :
        Plain(IF i = 1 THEN "create_ca_1" ELSE IF i = 2 THEN "create_ca_2" ELSE "create_ca_3",
              "create_table", CA_TABLE_MAPPING[i].table_name,
              IF i = 1 THEN "create_ca_2" ELSE IF i = 2 THEN "create_ca_3"
              ELSE "nyc_drop_stale")

\* Variant of Finally: the cleanup drop follows the merge inside the try
\* block, so an error skips it
NoFinally(cleanup) == "idle"

\* try: ... finally: an error inside the try block continues at the cleanup
Finally(cleanup) == cleanup

\* Variant of InTry: a statement that fails is skipped and the load goes on
InTryContinue(here, stmt, a, next, cleanup) ==
    /\ pc = here
    /\ \E o \in Outcomes(stmt, a) : Issue(here, a, o)
    /\ pc' = next
    /\ UNCHANGED <<kept, request, caIdx, pending, err, result, runs, prev, lastMerge>>

\* A statement inside the try block of a load
InTry(here, stmt, a, next, cleanup) ==
    /\ pc = here
    /\ \E o \in Outcomes(stmt, a) :
         /\ Issue(here, a, o)
         /\ IF o.ok THEN pc' = next /\ UNCHANGED <<err, result, pending>>
            ELSE IF Finally(cleanup) = "idle"
                 THEN Raise([at |-> here, table |-> a]) /\ UNCHANGED pending
            ELSE /\ pc' = Finally(cleanup)
                 /\ pending' = [at |-> here, table |-> a]
                 /\ UNCHANGED <<err, result>>
    /\ UNCHANGED <<kept, request, caIdx, runs, prev, lastMerge>>

\* Variant of Propagated: the load logs the errors and goes on
Swallowed(orig, dropError, dropOk) == NoError

\* The exception that leaves a try/finally whose finally clause is one
\* statement: the statement's own error when it raises, else the error of
\* the try block (NoError when there is none)
Propagated(orig, dropError, dropOk) == IF dropOk THEN orig ELSE dropError

\* Variant of Cleanup: the finally clause leaves the staging table in place
CleanupSkipped(here, a, next, nextIdx) ==
    /\ pc = here
    /\ IF pending = NoError
       THEN pc' = next /\ caIdx' = nextIdx /\ UNCHANGED <<err, result>>
       ELSE Raise(pending) /\ UNCHANGED caIdx
    /\ pending' = NoError
    /\ UNCHANGED <<db, log, faults, injected, kept, request, runs, prev, lastMerge>>

\* finally: DROP TABLE IF EXISTS <staging_table>
Cleanup(here, a, next, nextIdx) ==
    /\ pc = here
    /\ \E o \in Outcomes("drop_staging", a) :
         /\ Issue(here, a, o)
         /\ LET e == Propagated(pending, [at |-> here, table |-> a], o.ok)
            IN  IF e = NoError
                THEN pc' = next /\ caIdx' = nextIdx /\ UNCHANGED <<err, result>>
                ELSE Raise(e) /\ UNCHANGED caIdx
    /\ pending' = NoError
    /\ UNCHANGED <<kept, request, runs, prev, lastMerge>>

\* load_nyc_dataset
NycDropStale ==
    InTry("nyc_drop_stale", "drop_staging", "nyc_crashes", "nyc_create_staging",
          "nyc_cleanup")

NycCreateStaging ==
    InTry("nyc_create_staging", "create_staging", "nyc_crashes", "nyc_import",
          "nyc_cleanup")

NycImport == InTry("nyc_import", "import", "nyc_crashes", "nyc_merge", "nyc_cleanup")

NycMerge == InTry("nyc_merge", "merge", "nyc_crashes", "nyc_cleanup", "nyc_cleanup")

NycCleanup == Cleanup("nyc_cleanup", "nyc_crashes", "ca_next", 1)

load_nyc_dataset ==
    NycDropStale \/ NycCreateStaging \/ NycImport \/ NycMerge \/ NycCleanup

\* load_california_datasets
CaTable == CA_TABLE_MAPPING[caIdx].table_name

\* The file name a configured key ends with
BaseName(k) == IF k = "ca/2025parties.csv" THEN "2025parties.csv" ELSE k

\* Variant of InDataKeys: a configured key names the file whatever its prefix
InDataKeysByName(csv_file) == \E k \in cakeys : BaseName(k) = csv_file

\* csv_file in CA_DATA_KEYS
InDataKeys(csv_file) == csv_file \in cakeys

CaSkip ==
    /\ pc = "ca_next"
    /\ caIdx <= Len(CA_TABLE_MAPPING)
    /\ ~InDataKeys(CA_TABLE_MAPPING[caIdx].csv_file)
    /\ caIdx' = caIdx + 1
    /\ UNCHANGED <<db, kept, pc, request, pending, err, result, log, injected,
                   faults, runs, prev, lastMerge>>

CaStart ==
    /\ pc = "ca_next"
    /\ caIdx <= Len(CA_TABLE_MAPPING)
    /\ InDataKeys(CA_TABLE_MAPPING[caIdx].csv_file)
    /\ pc' = "ca_drop_stale"
    /\ UNCHANGED <<db, kept, request, caIdx, pending, err, result, log, injected,
                   faults, runs, prev, lastMerge>>

CaDropStale ==
    pc = "ca_drop_stale"
    /\ InTry("ca_drop_stale", "drop_staging", CaTable, "ca_create_staging", "ca_cleanup")

create_staging_table_for_california ==
    pc = "ca_create_staging"
    /\ InTry("ca_create_staging", "create_staging", CaTable, "ca_import", "ca_cleanup")

import_california_csv_to_staging ==
    pc = "ca_import"
    /\ InTry("ca_import", "import", CaTable, "ca_merge", "ca_cleanup")

populate_california_target_table ==
    pc = "ca_merge"
    /\ InTry("ca_merge", "merge", CaTable, "ca_cleanup", "ca_cleanup")

CaCleanup ==
    pc = "ca_cleanup"
    /\ Cleanup("ca_cleanup", CaTable, "ca_next", caIdx + 1)

load_california_datasets ==
    CaSkip \/ CaStart \/ CaDropStale \/ create_staging_table_for_california
    \/ import_california_csv_to_staging \/ populate_california_target_table
    \/ CaCleanup

\* handler, lines 66-67
ReturnComplete ==
    /\ pc = "ca_next"
    /\ caIdx > Len(CA_TABLE_MAPPING)
    /\ pc' = "idle"
    /\ result' = "complete"
    /\ UNCHANGED <<db, kept, request, caIdx, pending, err, log, injected, faults,
                   runs, prev, lastMerge>>

\* Variant of Caught: cleanup_on_delete without its except clause
Uncaught(ok) == IF ok THEN "skipped" ELSE "raised"

\* cleanup_on_delete and cleanup_database_for_delete: every error of the
\* cleanup is caught and logged, and the handler returns status skipped
Caught(ok) == "skipped"

ReturnSkipped(ok) == pc' = "idle" /\ result' = Caught(ok)

DeleteNoCluster ==
    /\ pc = "delete"
    /\ ~clusterId
    /\ ReturnSkipped(TRUE)
    /\ UNCHANGED <<db, kept, request, caIdx, pending, err, log, injected, faults,
                   runs, prev, lastMerge>>

\* Variant of DeleteWait: the cleanup goes on when the wait has raised
DeleteWaitIgnored ==
    /\ pc = "delete"
    /\ clusterId
    /\ pc' = "delete_terminate"
    /\ \/ UNCHANGED <<faults, injected>>
       \/ /\ faults < MaxFaults
          /\ faults' = faults + 1
          /\ injected' = TRUE
    /\ UNCHANGED <<db, kept, request, caIdx, pending, err, result, log, runs, prev,
                   lastMerge>>

DeleteWait ==
    /\ pc = "delete"
    /\ clusterId
    /\ \/ /\ pc' = "delete_terminate"
          /\ UNCHANGED <<result, faults, injected>>
       \/ /\ faults < MaxFaults
          /\ faults' = faults + 1
          /\ injected' = TRUE
          /\ ReturnSkipped(FALSE)
    /\ UNCHANGED <<db, kept, request, caIdx, pending, err, log, runs, prev, lastMerge>>

DeleteStatement(here, stmt, next) ==
    /\ pc = here
    /\ \E o \in Outcomes(stmt, "") :
         /\ Issue(here, "", o)
         /\ IF o.ok /\ next # "idle" THEN pc' = next /\ UNCHANGED result
            ELSE ReturnSkipped(o.ok)
    /\ UNCHANGED <<kept, request, caIdx, pending, err, runs, prev, lastMerge>>

DeleteTerminate == DeleteStatement("delete_terminate", "terminate", "delete_drop")

DeleteDrop == DeleteStatement("delete_drop", "drop_database", "idle")

cleanup_on_delete == DeleteNoCluster \/ DeleteWait \/ DeleteTerminate \/ DeleteDrop

\* ------------------------------------------------------- the data loaded

Row(t, k, a, b, c) ==
    CASE t = "nyc_crashes" ->
           [collision_id |-> k, borough |-> a, latitude |-> b, longitude |-> c,
            location |-> IF b # <<>> /\ c # <<>> THEN <<"P">> ELSE <<>>]
      [] t = "ca_crashes" -> [collision_id |-> k, latitude |-> b, longitude |-> c]
      [] t = "ca_injuredwitnesspassengers" ->
           [injured_wit_pass_id |-> k, is_witness_only |-> a]
      [] t = "ca_parties" -> [party_id |-> k, stated_age |-> a]

\* The buckets the handler is run against: one whose objects all load, one
\* whose 2025crashes.csv has a row without collision_id, one whose
\* 2025parties.csv has an age that is no number
Loadable ==
    [t \in Tables |->
        CASE t = "nyc_crashes" ->
               << Row(t, <<"1">>, <<"Q">>, <<"4", "0">>, <<"-", "7", "3">>),
                  Row(t, <<>>, <<"Q">>, <<>>, <<>>) >>
          [] t = "ca_crashes" ->
               << Row(t, <<"1">>, <<>>, <<"3", "4">>, <<"-", "1", "1", "8">>),
                  Row(t, <<"2">>, <<>>, <<"3", "4">>, <<>>) >>
          [] t = "ca_injuredwitnesspassengers" ->
               << Row(t, <<"1">>, TxtTrue, <<>>, <<>>),
                  Row(t, <<"1">>, <<>>, <<>>, <<>>) >>
          [] t = "ca_parties" ->
               << Row(t, <<"1">>, <<"3", "0">>, <<>>, <<>>),
                  Row(t, <<"0", "1">>, <<>>, <<>>, <<>>) >>]

Datasets ==
    {Loadable,
     [Loadable EXCEPT !["ca_crashes"][2].collision_id = <<>>],
     [Loadable EXCEPT !["ca_parties"][2].stated_age = <<"x">>]}

CaKeyConfigs ==
    {{"2025crashes.csv", "2025injuredwitnesspassengers.csv", "2025parties.csv"},
     {"2025crashes.csv", "2025injuredwitnesspassengers.csv", "ca/2025parties.csv"},
     {""}}

NoRun == [result |-> "none", db |-> NoDatabase, id |-> "None"]

\* The variables of the environment main.py reads with os.environ[...]
RequiredEnv ==
    {"DATA_BUCKET", "NYC_DATA_KEY", "CA_DATA_KEYS", "CLUSTER_ARN", "SECRET_ARN",
     "DATABASE_NAME"}

\* ... and with os.environ.get(...)
OptionalEnv == {"CLUSTER_IDENTIFIER", "AWS_REGION", "AWS_DEFAULT_REGION"}

\* An invocation that has not started
NoInvocation ==
    [pc |-> "idle", request |-> "Create", caIdx |-> 1, pending |-> NoError,
     err |-> NoError, result |-> "none", log |-> <<>>, injected |-> FALSE,
     event |-> NoEvent, physical_resource_id |-> "None", prev |-> NoRun]

\* The response streams of the chat service
Streams == 1..MaxStreams

\* current_agent = None (0), no request received
NoStreams ==
    [current_agent |-> 0, at |-> [s \in Streams |-> "new"],
     sent |-> [s \in Streams |-> 0]]

\* The events of the load path: every RequestType, no PhysicalResourceId
Events ==
    {[mapping |-> TRUE, RequestType |-> r, PhysicalResourceId |-> "None"] :
        r \in RequestTypes}
    \cup {NotAMapping}

NoEdit == [row |-> 0, field |-> ""]

NoMerge ==
    [table |-> "", phase |-> "none", before |-> <<>>, staged |-> <<>>, ok |-> FALSE,
     after |-> <<>>, n |-> 0, edit |-> NoEdit, earlier |-> <<>>]

Init ==
    /\ db = NoDatabase
    /\ dataset \in Datasets
    /\ source = Loadable
    /\ cakeys \in CaKeyConfigs
    /\ clusterId \in BOOLEAN
    /\ pc = "idle"
    /\ request = "Create"
    /\ caIdx = 1
    /\ pending = NoError
    /\ err = NoError
    /\ result = "none"
    /\ log = <<>>
    /\ injected = FALSE
    /\ faults = 0
    /\ runs = 0
    /\ prev = NoRun
    /\ lastMerge = NoMerge
    /\ env = RequiredEnv \cup (IF clusterId THEN {"CLUSTER_IDENTIFIER"} ELSE {})
    /\ event = NoEvent
    /\ physical_resource_id = "None"
    /\ other = NoInvocation
    /\ chat = NoStreams

Next ==
    \/ \E e \in Events : handler(e)
    \/ wait_for_cluster_available
    \/ terminate_database_connections
    \/ drop_database_if_exists
    \/ ensure_database_exists
    \/ enable_extensions
    \/ create_nyc_crashes_table
    \/ create_california_tables
    \/ load_nyc_dataset
    \/ load_california_datasets
    \/ ReturnComplete
    \/ cleanup_on_delete

Spec == Init /\ [][Next]_vars

\* ------------------------------------------- the merge statements alone
\* The load of one CSV object after another into a database whose tables
\* hold what earlier loads left there (invocations that overlap, or a
\* database that is kept, merge into tables that are not empty).  No call
\* fails in transport here; lastMerge tells what the merge statement met and
\* did, until the staging table is dropped.

ReadyDatabase ==
    [NewDatabase EXCEPT !.extensions = {"aws_s3", "postgis"}, !.tables = Tables]

idle == <<dataset, source, cakeys, clusterId, pc, request, caIdx, pending, err, result,
          log, injected, faults, runs, prev, env, event, physical_resource_id,
          other, chat>>

MergeInit ==
    /\ db = ReadyDatabase
    /\ dataset = Loadable
    /\ source = Loadable
    /\ cakeys = {}
    /\ clusterId = FALSE
    /\ pc = "idle"
    /\ request = "Create"
    /\ caIdx = 1
    /\ pending = NoError
    /\ err = NoError
    /\ result = "none"
    /\ log = <<>>
    /\ injected = FALSE
    /\ faults = 0
    /\ runs = 0
    /\ prev = NoRun
    /\ lastMerge = NoMerge
    /\ env = RequiredEnv \cup (IF clusterId THEN {"CLUSTER_IDENTIFIER"} ELSE {})
    /\ event = NoEvent
    /\ physical_resource_id = "None"
    /\ other = NoInvocation
    /\ chat = NoStreams

\* The objects loaded here: the borough, which the merge copies, is not varied
MergeRows(t) ==
    {r \in RawRows(t) :
        t = "nyc_crashes" => r.borough = <<"Q">> /\ r.location = <<>>}

MergeFiles(t) == SeqsUpTo(MergeRows(t), MaxRows)

\* The try block up to the import: the staging table of t holds the rows of
\* the object f.  One table is loaded again and again.
StageFile ==
    /\ lastMerge.n < MaxLoads
    /\ lastMerge.phase = "none"
    /\ \E t \in Tables :
         /\ lastMerge.n = 0 \/ t = lastMerge.table
         /\ \E f \in MergeFiles(t) :
              db' = [db EXCEPT !.staging = {t}, !.staged[t] = f]
         /\ lastMerge' = [NoMerge EXCEPT !.n = lastMerge.n, !.table = t,
                                          !.phase = "staged"]
    /\ UNCHANGED idle

\* The merge statement
MergeStaged ==
    /\ lastMerge.phase = "staged"
    /\ LET t == lastMerge.table
           r == Execute("merge", t, db)
       IN  /\ db' = r.db
           /\ lastMerge' = [table |-> t, phase |-> "merged", before |-> db.rows[t],
                            staged |-> db.staged[t], ok |-> r.ok,
                            after |-> r.db.rows[t], n |-> lastMerge.n + 1,
                            edit |-> NoEdit, earlier |-> <<>>]
    /\ UNCHANGED idle

\* finally: DROP TABLE IF EXISTS
DropStaging ==
    /\ lastMerge.phase = "merged"
    /\ db' = Execute("drop_staging", lastMerge.table, db).db
    /\ lastMerge' = [NoMerge EXCEPT !.n = lastMerge.n, !.table = lastMerge.table]
    /\ UNCHANGED idle

MergeNext ==
    \/ StageFile
    \/ MergeStaged
    \/ DropStaging

MergeSpec == MergeInit /\ [][MergeNext]_vars

\* ------------------------------------------------- the start of the module

\* infra.py: the environment of PopulatorFunction
InfraEnvironment ==
    {"SOURCE_DATA_BUCKET", "SOURCE_DATA_KEY", "DESTINATION_BUCKET", "DESTINATION_KEY",
     "CLUSTER_ARN", "SECRET_ARN", "DATABASE_NAME", "CLUSTER_IDENTIFIER"}

\* The environments the module is started in: the stack's, with and without
\* the region the runtime adds; every required variable with any of the
\* optional ones; one required variable missing; nothing set
Environments ==
    {InfraEnvironment, InfraEnvironment \cup {"AWS_REGION"}, {}}
    \cup {RequiredEnv \cup o : o \in SUBSET OptionalEnv}
    \cup {(RequiredEnv \ {n}) \cup o :
            n \in RequiredEnv, o \in {{}, {"CLUSTER_IDENTIFIER", "AWS_REGION"}}}

\* Variant of ModuleLoads: the bucket and the keys are read with a default
ModuleLoadsWithDefaults == {"CLUSTER_ARN", "SECRET_ARN", "DATABASE_NAME"} \subseteq env

\* Lines 22-27: os.environ[name] raises KeyError for a name that is not set
ModuleLoads == RequiredEnv \subseteq env

\* The import of main.py by the runtime, before any invocation
LoadModule ==
    /\ pc = "cold"
    /\ IF ModuleLoads
       THEN pc' = "idle" /\ UNCHANGED <<err, result>>
       ELSE /\ pc' = "failed"
            /\ result' = "raised"
            /\ err' = [at |-> "import", table |-> ""]
    /\ UNCHANGED <<db, kept, request, caIdx, pending, log, injected, faults, runs,
                   prev, lastMerge>>

StartupInit ==
    /\ env \in Environments
    /\ clusterId = ("CLUSTER_IDENTIFIER" \in env)
    /\ db \in {NoDatabase, ReadyDatabase}
    /\ dataset = Loadable
    /\ source = Loadable
    /\ cakeys = {"2025crashes.csv", "2025injuredwitnesspassengers.csv", "2025parties.csv"}
    /\ pc = "cold"
    /\ request = "Create"
    /\ caIdx = 1
    /\ pending = NoError
    /\ err = NoError
    /\ result = "none"
    /\ log = <<>>
    /\ injected = FALSE
    /\ faults = 0
    /\ runs = 0
    /\ prev = NoRun
    /\ lastMerge = NoMerge
    /\ event = NoEvent
    /\ physical_resource_id = "None"
    /\ other = NoInvocation
    /\ chat = NoStreams

\* The module's start and the first steps of the invocations that follow
StartupNext ==
    \/ LoadModule
    \/ \E e \in Events : handler(e)
    \/ wait_for_cluster_available
    \/ terminate_database_connections
    \/ cleanup_on_delete

StartupSpec == StartupInit /\ [][StartupNext]_vars

\* ------------------------------------------------ the physical resource id
\* Invocations whose events carry a PhysicalResourceId: none, the empty
\* string, one of the caller's, or the one the invocation before resolved.
\* No call fails in transport here.

IdEvents ==
    {[mapping |-> TRUE, RequestType |-> r, PhysicalResourceId |-> i] :
        r \in RequestTypes, i \in {"None", "", "custom", physical_resource_id}}
    \cup {NotAMapping}

IdInit ==
    /\ db = NoDatabase
    /\ dataset = Loadable
    /\ source = Loadable
    /\ cakeys \in {{"2025crashes.csv", "2025injuredwitnesspassengers.csv", "2025parties.csv"},
                   {"2025crashes.csv"}}
    /\ clusterId \in BOOLEAN
    /\ pc = "idle"
    /\ request = "Create"
    /\ caIdx = 1
    /\ pending = NoError
    /\ err = NoError
    /\ result = "none"
    /\ log = <<>>
    /\ injected = FALSE
    /\ faults = MaxFaults
    /\ runs = 0
    /\ prev = NoRun
    /\ lastMerge = NoMerge
    /\ env = RequiredEnv \cup (IF clusterId THEN {"CLUSTER_IDENTIFIER"} ELSE {})
    /\ event = NoEvent
    /\ physical_resource_id = "None"
    /\ other = NoInvocation
    /\ chat = NoStreams

IdNext ==
    \/ \E e \in IdEvents : handler(e)
    \/ wait_for_cluster_available
    \/ terminate_database_connections
    \/ drop_database_if_exists
    \/ ensure_database_exists
    \/ enable_extensions
    \/ create_nyc_crashes_table
    \/ create_california_tables
    \/ load_nyc_dataset
    \/ load_california_datasets
    \/ ReturnComplete
    \/ cleanup_on_delete

IdSpec == IdInit /\ [][IdNext]_vars

\* ---------------------------------------------------------- the chat service
\* generate() of chat/app/main.py: one asynchronous generator per POST
\* /api/chat, all of them on one event loop and one module-level
\* current_agent.  A generator runs from one suspension point (the await of
\* the next event, a yield) to the next without interruption, and the loop
\* resumes any generator that is suspended.

\* What the chat service leaves alone
populator ==
    <<db, config, env, event, physical_resource_id, other, pc, request, caIdx, pending,
      err, result, log, injected, faults, runs, prev, lastMerge>>

Active(s) == chat.at[s] \in {"streaming", "error"}

\* async with session(session_id) as agent: current_agent = agent, up to the
\* first await of agent.stream_async
GenerateEnter(s) ==
    /\ chat.at[s] = "new"
    /\ chat' = [chat EXCEPT !.current_agent = s, !.at[s] = "streaming"]
    /\ UNCHANGED populator

\* An event with data: yield f"data: ..."
GenerateYield(s) ==
    /\ chat.at[s] = "streaming"
    /\ chat.sent[s] < MaxChunks
    /\ chat' = [chat EXCEPT !.sent[s] = @ + 1]
    /\ UNCHANGED populator

\* except Exception: yield the error event
GenerateError(s) ==
    /\ chat.at[s] = "streaming"
    /\ chat' = [chat EXCEPT !.at[s] = "error"]
    /\ UNCHANGED populator

\* finally: current_agent = None, when the stream is exhausted, after the
\* error event, or when the response is closed
GenerateFinally(s) ==
    /\ Active(s)
    /\ chat' = [chat EXCEPT !.current_agent = 0, !.at[s] = "done"]
    /\ UNCHANGED populator

generate(s) ==
    GenerateEnter(s) \/ GenerateYield(s) \/ GenerateError(s) \/ GenerateFinally(s)

ChatInit ==
    /\ MergeInit
    /\ chat = NoStreams

ChatNext == \E s \in Streams : generate(s)

ChatSpec == ChatInit /\ [][ChatNext]_vars

\* ------------------------------------------------- two invocations at once
\* Two invocations of the handler that are no Delete, against one cluster.
\* Each call of execute_sql is one statement of the Data API, so the
\* statements of the two interleave in any order; pc, log and the other names
\* of the handler's frame belong to the invocation that takes the next step,
\* other holds the frame of the invocation that waits.  No call fails in
\* transport here.

Frame ==
    [pc |-> pc, request |-> request, caIdx |-> caIdx, pending |-> pending,
     err |-> err, result |-> result, log |-> log, injected |-> injected,
     event |-> event, physical_resource_id |-> physical_resource_id, prev |-> prev]

\* The other invocation takes the next steps
Switch ==
    /\ other' = Frame
    /\ pc' = other.pc
    /\ request' = other.request
    /\ caIdx' = other.caIdx
    /\ pending' = other.pending
    /\ err' = other.err
    /\ result' = other.result
    /\ log' = other.log
    /\ injected' = other.injected
    /\ event' = other.event
    /\ physical_resource_id' = other.physical_resource_id
    /\ prev' = other.prev
    /\ UNCHANGED <<db, config, env, chat, faults, runs, lastMerge>>

ConcurrentEvents == {e \in Events : e.RequestType \in {"Create", "Update"}}

\* Each of the two is invoked once
Invoke ==
    /\ result = "none"
    /\ \E e \in ConcurrentEvents : handler(e)

ConcurrentInit ==
    /\ db \in {NoDatabase, ReadyDatabase}
    /\ dataset = Loadable
    /\ source = Loadable
    /\ cakeys = {"2025crashes.csv"}
    /\ clusterId = TRUE
    /\ pc = "idle"
    /\ request = "Create"
    /\ caIdx = 1
    /\ pending = NoError
    /\ err = NoError
    /\ result = "none"
    /\ log = <<>>
    /\ injected = FALSE
    /\ faults = MaxFaults
    /\ runs = 0
    /\ prev = NoRun
    /\ lastMerge = NoMerge
    /\ env = RequiredEnv \cup {"CLUSTER_IDENTIFIER"}
    /\ event = NoEvent
    /\ physical_resource_id = "None"
    /\ other = NoInvocation
    /\ chat = NoStreams

ConcurrentNext ==
    \/ Invoke
    \/ Switch
    \/ wait_for_cluster_available
    \/ terminate_database_connections
    \/ drop_database_if_exists
    \/ ensure_database_exists
    \/ enable_extensions
    \/ create_nyc_crashes_table
    \/ create_california_tables
    \/ load_nyc_dataset
    \/ load_california_datasets
    \/ ReturnComplete

ConcurrentSpec == ConcurrentInit /\ [][ConcurrentNext]_vars

\* ------------------------------------------------ a corrected re-import
\* An object is loaded into the empty table, one field of one of its rows is
\* changed at the source, and the object is loaded again.  One step is the
\* whole load of the object.

NonKeyFields(t) ==
    CASE t = "nyc_crashes" -> {"borough", "latitude", "longitude", "location"}
      [] t = "ca_crashes" -> {"latitude", "longitude"}
      [] t = "ca_injuredwitnesspassengers" -> {"is_witness_only"}
      [] t = "ca_parties" -> {"stated_age"}

FieldTexts(t, c) == {r[c] : r \in RawRows(t)}

LoadFile(t, f, e, f0) ==
    LET m == Merge(t, db.rows[t], f)
    IN  /\ lastMerge' = [table |-> t, phase |-> "merged", before |-> db.rows[t],
                         staged |-> f, ok |-> m.ok, after |-> m.rows,
                         n |-> lastMerge.n + 1, edit |-> e, earlier |-> f0]
        /\ db' = [db EXCEPT !.rows[t] = m.rows]
        /\ UNCHANGED idle

FirstLoad ==
    /\ lastMerge.n = 0
    /\ \E t \in Tables : \E f \in Files(t) : LoadFile(t, f, NoEdit, <<>>)

Reimport ==
    /\ lastMerge.n = 1
    /\ lastMerge.ok
    /\ LET t == lastMerge.table
           f0 == lastMerge.staged
       IN  \E i \in 1..Len(f0) : \E c \in NonKeyFields(t) :
             \E v \in FieldTexts(t, c) \ {f0[i][c]} :
                LoadFile(t, [f0 EXCEPT ![i][c] = v], [row |-> i, field |-> c], f0)

ReimportNext == FirstLoad \/ Reimport

ReimportSpec == MergeInit /\ [][ReimportNext]_vars

\* ------------------------------------------------- the pipeline's claims

TryLabels ==
    {"nyc_drop_stale", "nyc_create_staging", "nyc_import", "nyc_merge",
     "ca_drop_stale", "ca_create_staging", "ca_import", "ca_merge"}

CleanupLabels == {"nyc_cleanup", "ca_cleanup"}

CleanupOf(at) == IF at \in {"nyc_drop_stale", "nyc_create_staging", "nyc_import",
                            "nyc_merge"}
                 THEN "nyc_cleanup" ELSE "ca_cleanup"

FailedInTry(i) == log[i].at \in TryLabels /\ ~log[i].ok

\* C1: when the stale drop, the staging create, the import or the merge of a
\* load fails, the next statement issued is the drop of that file's staging
\* table, the load is not left before it, and when that drop succeeds the
\* staging table does not exist once the load has exited.
C1_CleanupAfterFailure ==
    \A i \in 1..Len(log) :
        FailedInTry(i) =>
            IF i = Len(log)
            THEN pc = CleanupOf(log[i].at) /\ result = "none"
            ELSE /\ i + 1 = Len(log)
                 /\ log[i + 1].at = CleanupOf(log[i].at)
                 /\ log[i + 1].table = log[i].table
                 /\ pc = "idle" /\ result = "raised"
                 /\ log[i + 1].ok => log[i].table \notin db.staging

C1_Witness ==
    /\ pc = "idle" /\ result = "raised" /\ Len(log) >= 2
    /\ log[Len(log) - 1].at = "ca_import" /\ ~log[Len(log) - 1].ok
    /\ log[Len(log)].at = "ca_cleanup" /\ log[Len(log)].ok
    /\ db.staging = {}

\* C2: when a statement of a load's try block fails and the cleanup drop fails
\* too, the error that leaves the load is the one of the statement of the try
\* block.
C2_OriginalErrorPropagates ==
    \A i \in 1..Len(log) :
        (/\ FailedInTry(i) /\ i + 1 = Len(log)
         /\ ~log[i + 1].ok /\ result = "raised")
        => err = [at |-> log[i].at, table |-> log[i].table]

Loaded(t) ==
    \E i \in 1..Len(log) :
        log[i].at \in {"nyc_merge", "ca_merge"} /\ log[i].table = t /\ log[i].ok

\* C9: a Create or Update run that follows a completed run on the same bucket,
\* and in which no call fails in transport, completes as well and leaves in
\* every destination table the rows the first run left.
C9_SecondRunSameRows ==
    (/\ pc = "idle" /\ result # "none" /\ request # "Delete"
     /\ prev.result = "complete" /\ ~injected)
    => /\ result = "complete"
       /\ db.tables = Tables
       /\ db.rows = prev.db.rows

C9_Witness ==
    /\ pc = "idle" /\ result = "complete" /\ request # "Delete"
    /\ prev.result = "complete" /\ db.rows = prev.db.rows
    /\ \A t \in Tables : db.rows[t] # <<>>

\* C10 as stated: the handler returns "complete" only when the NYC file and
\* all three California files were loaded in this run.
C10_CompleteMeansAllLoaded ==
    result = "complete" => \A t \in Tables : Loaded(t)

\* C10: the handler returns "complete" only when every statement of the run
\* succeeded, the database was reset, both extensions and the four tables
\* exist, the NYC file was loaded and every California file whose bare name is
\* in CA_DATA_KEYS was loaded; a California file that is not listed there was
\* not loaded.
C10_CompleteMeansConfiguredLoaded ==
    result = "complete" =>
        /\ \A i \in 1..Len(log) : log[i].ok
        /\ \E i \in 1..Len(log) : log[i].at = "drop_database"
        /\ \E i \in 1..Len(log) : log[i].at = "create_database"
        /\ db.exists
        /\ db.extensions = {"aws_s3", "postgis"}
        /\ db.tables = Tables
        /\ db.staging = {}
        /\ Loaded("nyc_crashes")
        /\ \A j \in 1..Len(CA_TABLE_MAPPING) :
              Loaded(CA_TABLE_MAPPING[j].table_name)
                 <=> CA_TABLE_MAPPING[j].csv_file \in cakeys

C10_Witness ==
    /\ pc = "idle" /\ result = "complete"
    /\ "2025parties.csv" \notin cakeys
    /\ Loaded("ca_crashes") /\ ~Loaded("ca_parties")

\* ------------------------------------------------ the merges' claims

Merged == lastMerge.phase = "merged"

EmptyKey(t, r) == r[PrimaryKey(t)] = <<>>

Keyed(t, staged) == SelectSeq(staged, LAMBDA r : ~EmptyKey(t, r))

\* C3: a merge whose staging table holds rows with an empty primary-key field
\* succeeds whenever the merge of the other rows alone would, and leaves the
\* destination table as the merge of the other rows alone would.
C3_EmptyKeyRowsLeftOut ==
    Merged =>
        LET t == lastMerge.table
            others == Merge(t, lastMerge.before, Keyed(t, lastMerge.staged))
        IN  ((\E i \in 1..Len(lastMerge.staged) : EmptyKey(t, lastMerge.staged[i]))
             /\ others.ok)
            => lastMerge.ok /\ lastMerge.after = others.rows

\* C4: no row of a destination table has a null primary key.
C4_NoNullKey ==
    \A t \in Tables : \A i \in 1..Len(db.rows[t]) : KeyOf(t, db.rows[t][i]) # Null

C4_Witness ==
    /\ Merged /\ lastMerge.ok
    /\ \E i \in 1..Len(lastMerge.staged) : EmptyKey(lastMerge.table, lastMerge.staged[i])
    /\ Len(lastMerge.after) > Len(lastMerge.before)
    /\ db.rows[lastMerge.table] = lastMerge.after

\* C5: every destination table holds at most one row for each primary-key
\* value, whatever loads came before.
C5_OneRowPerKey ==
    \A t \in Tables : \A i, j \in 1..Len(db.rows[t]) :
        KeyOf(t, db.rows[t][i]) = KeyOf(t, db.rows[t][j]) => i = j

StoredKeyIncoming(i) ==
    LET t == lastMerge.table
        r == lastMerge.staged[i]
    IN  /\ ~EmptyKey(t, r) /\ CastOk(r[PrimaryKey(t)])
        /\ Cast(r[PrimaryKey(t)]) \in Keys(t, lastMerge.before)

C5_Witness ==
    /\ Merged /\ lastMerge.ok /\ lastMerge.n > 1
    /\ \E i \in 1..Len(lastMerge.staged) : StoredKeyIncoming(i)
    /\ \E i, j \in 1..Len(lastMerge.staged) :
          i # j /\ ~EmptyKey(lastMerge.table, lastMerge.staged[i])
                /\ Cast(lastMerge.staged[i][PrimaryKey(lastMerge.table)])
                     = Cast(lastMerge.staged[j][PrimaryKey(lastMerge.table)])
    /\ db.rows[lastMerge.table] = lastMerge.after

\* C7: a merge into one of the three California tables leaves every row the
\* table held unchanged in every column, whatever the incoming rows with the
\* same key carry.
C7_FirstLoadWins ==
    (Merged /\ lastMerge.table \in CaTables) =>
        /\ Len(lastMerge.after) >= Len(lastMerge.before)
        /\ \A i \in 1..Len(lastMerge.before) : lastMerge.after[i] = lastMerge.before[i]

C7_Witness ==
    /\ Merged /\ lastMerge.ok /\ lastMerge.table \in CaTables
    /\ \E i \in 1..Len(lastMerge.staged) :
          /\ StoredKeyIncoming(i)
          /\ SelectListOk(lastMerge.table, lastMerge.staged[i])
          /\ \A j \in 1..Len(lastMerge.before) :
                lastMerge.before[j] # SelectList(lastMerge.table, lastMerge.staged[i])
    /\ db.rows[lastMerge.table] = lastMerge.after

\* The staging row i of the last merge is the one its key's destination row
\* was written from
WrittenFrom(i) ==
    LET t == lastMerge.table
        f == lastMerge.staged
        k == Cast(f[i][PrimaryKey(t)])
    IN  /\ Where(t, f[i])
        /\ \/ OnConflict(t) = "update"
           \/ /\ k \notin Keys(t, lastMerge.before)
              /\ \A j \in 1..(i - 1) : Cast(f[j][PrimaryKey(t)]) # k

\* C8: a row merged into nyc_crashes or ca_crashes has a location if and only
\* if its source latitude and longitude are both non-empty, and the location
\* is then the point with x the longitude, y the latitude and SRID 4326.
C8_Location ==
    (Merged /\ lastMerge.ok /\ HasLocation(lastMerge.table)) =>
        \A i \in 1..Len(lastMerge.staged) :
            WrittenFrom(i) =>
                LET t == lastMerge.table
                    r == lastMerge.staged[i]
                    d == lastMerge.after[IndexOfKey(t, lastMerge.after,
                                                    Cast(r[PrimaryKey(t)]))]
                IN  /\ d.location # Null <=> (r.latitude # <<>> /\ r.longitude # <<>>)
                    /\ d.location # Null =>
                          d.location[1] = [srid |-> 4326,
                                           x |-> ParseNumber(r.longitude),
                                           y |-> ParseNumber(r.latitude)]

C8_Witness ==
    /\ Merged /\ lastMerge.ok /\ HasLocation(lastMerge.table)
    /\ \E i, j \in 1..Len(lastMerge.staged) :
          /\ WrittenFrom(i) /\ WrittenFrom(j)
          /\ lastMerge.staged[i].latitude # <<>> /\ lastMerge.staged[i].longitude # <<>>
          /\ lastMerge.staged[j].latitude # <<>> /\ lastMerge.staged[j].longitude = <<>>
    /\ \E i \in 1..Len(lastMerge.after) : lastMerge.after[i].location # Null

\* ---------------------------------------------- the re-import's claims

Reimported ==
    /\ lastMerge.n = 2 /\ lastMerge.ok /\ lastMerge.table = "nyc_crashes"
    /\ ~EmptyKey("nyc_crashes", lastMerge.staged[lastMerge.edit.row])

EditedKey == Cast(lastMerge.staged[lastMerge.edit.row].collision_id)

NycColumns == {"collision_id", "borough", "latitude", "longitude", "location"}

ChangedColumns(j) ==
    {c \in NycColumns : lastMerge.after[j][c] # lastMerge.before[j][c]}

\* The columns of nyc_crashes the SELECT list computes from a staging field:
\* the staging field location is not read
ColumnsFrom(field) ==
    IF field \in {"latitude", "longitude"} THEN {field, "location"}
    ELSE IF field = "location" THEN {} ELSE {field}

\* C6 as stated: re-importing the file with one non-key field of one row
\* changed changes exactly the like-named column of the stored row with that
\* key, no other column, no other row, and adds no row.
C6_ExactlyThatField ==
    Reimported =>
        /\ Len(lastMerge.after) = Len(lastMerge.before)
        /\ \A j \in 1..Len(lastMerge.before) :
              ChangedColumns(j) =
                 IF lastMerge.before[j].collision_id = EditedKey
                 THEN {lastMerge.edit.field} ELSE {}

\* C6: after re-importing the file with one non-key field of one row changed,
\* every stored row whose key is in the file carries in every column what the
\* SELECT list computes from the incoming row; the columns that changed are
\* among those computed from the changed field (the like-named column and,
\* for latitude and longitude, location; none for the staging field location,
\* which is not read) of the row with that key; no other row changed and no
\* row was added.
C6_LastLoadWins ==
    Reimported =>
        /\ Len(lastMerge.after) = Len(lastMerge.before)
        /\ \A i \in 1..Len(lastMerge.staged) :
              Where("nyc_crashes", lastMerge.staged[i]) =>
                 \E j \in 1..Len(lastMerge.after) :
                    lastMerge.after[j] = SelectList("nyc_crashes", lastMerge.staged[i])
        /\ \A j \in 1..Len(lastMerge.before) :
              /\ lastMerge.after[j].collision_id = lastMerge.before[j].collision_id
              /\ lastMerge.edit.field \in ChangedColumns(j)
                    <=> (/\ lastMerge.before[j].collision_id = EditedKey
                         /\ lastMerge.edit.field # "location")
              /\ ChangedColumns(j) \subseteq
                    (IF lastMerge.before[j].collision_id = EditedKey
                     THEN ColumnsFrom(lastMerge.edit.field) ELSE {})

C6_Witness ==
    /\ Reimported
    /\ lastMerge.edit.field = "latitude"
    /\ Len(lastMerge.before) > 1
    /\ \E j \in 1..Len(lastMerge.before) :
          ChangedColumns(j) = {"latitude", "location"}
    /\ \E j \in 1..Len(lastMerge.before) : ChangedColumns(j) = {}
    /\ db.rows["nyc_crashes"] = lastMerge.after

\* -------------------------------------------- the invocation's claims

Returned == pc = "idle" /\ result # "none"

FailedAt == {i \in 1..Len(log) : ~log[i].ok}

FirstFailed == CHOOSE i \in FailedAt : \A j \in FailedAt : i <= j

\* C11: an invocation that is no Delete (the empty event included) returns
\* "complete" when nothing failed; when the cluster wait or a statement
\* raised, it returns no status and the error that leaves the handler is the
\* one of the statement that raised.
C11_RaisesThatFailure ==
    (Returned /\ request # "Delete") =>
        /\ result \in {"complete", "raised"}
        /\ result = "complete" <=> (FailedAt = {} /\ err = NoError)
        /\ (result = "raised" /\ FailedAt = {}) => err = [at |-> "wait", table |-> ""]
        /\ (result = "raised" /\ FailedAt # {}) =>
              err = [at |-> log[FirstFailed].at, table |-> log[FirstFailed].table]

\* C12: a Delete invocation issues no statement but the connection
\* termination and the database drop of the cleanup, never raises whatever
\* fails in the cleanup, and returns status "skipped".
C12_DeleteBestEffort ==
    request = "Delete" =>
        /\ pc \in {"idle", "delete", "delete_terminate", "delete_drop"}
        /\ \A i \in 1..Len(log) : log[i].at \in {"delete_terminate", "delete_drop"}
        /\ err = NoError
        /\ result = (IF pc = "idle" THEN "skipped" ELSE "none")

C12_Witness ==
    /\ request = "Delete" /\ Returned /\ result = "skipped"
    /\ Len(log) = 2 /\ log[1].ok /\ ~log[2].ok /\ log[2].at = "delete_drop"

\* A staging row the merge reads that holds a text its cast rejects
Unparseable(t, r) == Where(t, r) /\ ~SelectListOk(t, r)

Parseable(t, staged) == SelectSeq(staged, LAMBDA r : ~Unparseable(t, r))

\* C13: a merge whose staging table holds rows with a non-empty value that
\* cannot be parsed as its destination type succeeds whenever the merge of
\* the other rows would.
C13_UnparseableTolerated ==
    Merged =>
        LET t == lastMerge.table
        IN  (/\ \E i \in 1..Len(lastMerge.staged) : Unparseable(t, lastMerge.staged[i])
             /\ Merge(t, lastMerge.before, Parseable(t, lastMerge.staged)).ok)
            => lastMerge.ok

\* The tables the configuration has the handler load
Configured(t) ==
    \/ t = "nyc_crashes"
    \/ \E j \in 1..Len(CA_TABLE_MAPPING) :
          CA_TABLE_MAPPING[j].table_name = t /\ CA_TABLE_MAPPING[j].csv_file \in cakeys

\* The database one successful run leaves when it starts without database
FreshRun ==
    [exists |-> TRUE, extensions |-> {"aws_s3", "postgis"}, tables |-> Tables,
     rows |-> [t \in Tables |->
                 IF Configured(t) THEN Merge(t, <<>>, dataset[t]).rows ELSE <<>>],
     staging |-> {}, staged |-> EmptyTables]

FreshRunLoads == \A t \in Tables : Configured(t) => Merge(t, <<>>, dataset[t]).ok

\* C14: every invocation that completes leaves the database a single
\* successful run on a fresh cluster leaves, in particular the one that
\* follows an invocation that raised, whatever that one left behind; and the
\* invocation after one that raised completes when no call fails in transport
\* and the objects of the bucket can be loaded.
C14_RecoveryByRerun ==
    (Returned /\ request # "Delete") =>
        /\ result = "complete" => db = FreshRun
        /\ (prev.result = "raised" /\ ~injected /\ FreshRunLoads)
              => result = "complete"

C14_Witness ==
    /\ Returned /\ request # "Delete" /\ result = "complete"
    /\ prev.result = "raised"
    /\ prev.db.staging # {}
    /\ prev.db.rows["nyc_crashes"] # <<>>
    /\ prev.db.rows # db.rows
    /\ db = FreshRun

ResetLabels == <<"terminate", "drop_database", "create_database">>

\* C15: the first three statements of an invocation that is no Delete are
\* the termination of the other connections, DROP DATABASE IF EXISTS and
\* CREATE DATABASE, in this order, each against the administrative database,
\* each issued once and only after the one before succeeded; when CREATE
\* DATABASE has succeeded the database holds no extension, table, staging
\* table or row.
C15_DestructiveReset ==
    request # "Delete" =>
        /\ \A i \in 1..Len(log) :
              IF i <= Len(ResetLabels)
              THEN /\ log[i].at = ResetLabels[i]
                   /\ log[i].database = "postgres"
                   /\ i > 1 => log[i - 1].ok
              ELSE /\ log[i].database # "postgres"
                   /\ \A j \in 1..Len(ResetLabels) : log[i].at # ResetLabels[j]
        /\ pc = "ext_1" => /\ Len(log) = Len(ResetLabels)
                           /\ log[Len(log)].ok
                           /\ db = NewDatabase
        /\ Len(log) > Len(ResetLabels) => log[Len(ResetLabels)].ok

C15_Witness ==
    /\ request # "Delete" /\ pc = "ext_1"
    /\ prev.result = "raised"
    /\ prev.db.rows["nyc_crashes"] # <<>>
    /\ prev.db.staging # {}
    /\ db = NewDatabase

\* C16: once an invocation that is no Delete has issued a statement, the
\* data bucket holds a copy of the source objects.
C16_CopiedBeforeSchema ==
    (request # "Delete" /\ Len(log) > 0) => dataset = source

\* The step of a load a statement is: 1 stale drop, 2 staging create,
\* 3 import, 4 merge, 5 cleanup drop; 0 for a statement outside the loads
StepOf(at) ==
    CASE at \in {"nyc_drop_stale", "ca_drop_stale"} -> 1
      [] at \in {"nyc_create_staging", "ca_create_staging"} -> 2
      [] at \in {"nyc_import", "ca_import"} -> 3
      [] at \in {"nyc_merge", "ca_merge"} -> 4
      [] at \in CleanupLabels -> 5
      [] OTHER -> 0

SameFile(i, j) == log[i].table = log[j].table

\* C17: the statements of a file's load are issued in the order stale drop,
\* staging create, import, merge, cleanup drop; the staging create, the
\* import and the merge directly follow the success of the step before; the
\* cleanup drop follows the merge or the step that failed, and every failed
\* step is followed by it; after a failed import the file has no merge and no
\* row in its destination table.
C17_FileStateMachine ==
    \A i \in 1..Len(log) :
        LET k == StepOf(log[i].at)
        IN  /\ k = 1 => /\ i > 1
                        /\ log[i - 1].ok
                        /\ StepOf(log[i - 1].at) \in {0, 5}
                        /\ \A j \in 1..(i - 1) : log[j].table # log[i].table
                                                   \/ StepOf(log[j].at) = 0
            /\ k \in 2..4 => /\ i > 1
                             /\ SameFile(i - 1, i)
                             /\ StepOf(log[i - 1].at) = k - 1
                             /\ log[i - 1].ok
            /\ k = 5 => /\ i > 1
                        /\ SameFile(i - 1, i)
                        /\ StepOf(log[i - 1].at) \in 1..4
                        /\ log[i - 1].ok => StepOf(log[i - 1].at) = 4
            /\ (k \in 1..4 /\ ~log[i].ok) =>
                  IF i = Len(log) THEN pc = CleanupOf(log[i].at)
                  ELSE StepOf(log[i + 1].at) = 5 /\ SameFile(i, i + 1)
            /\ (k = 4 /\ log[i].ok) =>
                  IF i = Len(log) THEN pc = CleanupOf(log[i].at)
                  ELSE StepOf(log[i + 1].at) = 5 /\ SameFile(i, i + 1)
            /\ (k = 3 /\ ~log[i].ok) =>
                  /\ \A j \in 1..Len(log) :
                        StepOf(log[j].at) = 4 => log[j].table # log[i].table
                  /\ db.rows[log[i].table] = <<>>

C17_Witness ==
    /\ Returned /\ result = "raised" /\ Len(log) > 2
    /\ log[Len(log) - 1].at = "ca_import" /\ ~log[Len(log) - 1].ok
    /\ log[Len(log)].at = "ca_cleanup"
    /\ dataset[log[Len(log)].table] # <<>>
    /\ db.rows[log[Len(log)].table] = <<>>
    /\ Loaded("nyc_crashes")

\* The place of a statement in the handler: 1..9 the schema statements,
\* 10 the NYC load, 10 + j the load of the j-th file of CA_TABLE_MAPPING
StageOf(e) ==
    CASE e.at = "terminate" -> 1
      [] e.at = "drop_database" -> 2
      [] e.at = "create_database" -> 3
      [] e.at = "ext_1" -> 4
      [] e.at = "ext_2" -> 5
      [] e.at = "create_nyc" -> 6
      [] e.at = "create_ca_1" -> 7
      [] e.at = "create_ca_2" -> 8
      [] e.at = "create_ca_3" -> 9
      [] e.at \in {"nyc_drop_stale", "nyc_create_staging", "nyc_import",
                   "nyc_merge", "nyc_cleanup"} -> 10
      [] OTHER -> 10 + (CHOOSE j \in 1..Len(CA_TABLE_MAPPING) :
                           CA_TABLE_MAPPING[j].table_name = e.table)

\* What a schema statement names
NamedBy(stage) ==
    CASE stage = 4 -> "aws_s3"
      [] stage = 5 -> "postgis"
      [] stage = 6 -> "nyc_crashes"
      [] stage \in 7..9 -> CA_TABLE_MAPPING[stage - 6].table_name
      [] OTHER -> ""

\* C18: in an invocation that is no Delete no statement is issued before the
\* cluster wait has returned; the statements come in the order reset,
\* aws_s3, postgis, nyc_crashes, the three California tables, the NYC load,
\* the California loads in the order of CA_TABLE_MAPPING; each schema
\* statement is issued once, and a stage starts only after the statement
\* before it succeeded; both extensions are enabled before a table is
\* created and the four tables exist before an import is issued.
C18_StageOrder ==
    request # "Delete" =>
        /\ pc = "wait" => log = <<>>
        /\ \A i \in 1..Len(log) :
              LET s == StageOf(log[i])
              IN  /\ i = 1 => s = 1
                  /\ s <= 9 => log[i].table = NamedBy(s)
                  /\ i > 1 =>
                        LET p == StageOf(log[i - 1])
                        IN  /\ p <= s
                            /\ s <= 10 => s <= p + 1
                            /\ s <= 9 => s = p + 1
                            /\ s # p => log[i - 1].ok
                  /\ s \in 6..9 =>
                        \A x \in {"aws_s3", "postgis"} :
                            \E j \in 1..(i - 1) :
                                log[j].table = x /\ log[j].ok /\ StageOf(log[j]) \in 4..5
                  /\ StepOf(log[i].at) = 3 =>
                        \A t \in Tables :
                            \E j \in 1..(i - 1) :
                                log[j].table = t /\ log[j].ok /\ StageOf(log[j]) \in 6..9

C18_Witness ==
    /\ Returned /\ request # "Delete" /\ result = "complete"
    /\ \A t \in Tables : Loaded(t)
    /\ db.extensions = {"aws_s3", "postgis"} /\ db.tables = Tables

\* C19: an invocation issues no statement twice, and after a statement has
\* failed it issues nothing but, when the statement was in the try block of a
\* load, the cleanup drop of that load's staging table; an invocation that is
\* no Delete then raises.
C19_NoRetry ==
    /\ \A i, j \in 1..Len(log) :
          (log[i].at = log[j].at /\ log[i].table = log[j].table) => i = j
    /\ \A i \in 1..Len(log) :
          ~log[i].ok =>
             \/ /\ i = Len(log)
                /\ IF StepOf(log[i].at) \in 1..4
                   THEN pc = CleanupOf(log[i].at) /\ result = "none"
                   ELSE Returned /\ (request # "Delete" => result = "raised")
             \/ /\ i + 1 = Len(log)
                /\ StepOf(log[i].at) \in 1..4
                /\ StepOf(log[i + 1].at) = 5
                /\ SameFile(i, i + 1)
                /\ Returned /\ result = "raised"

C19_Witness ==
    /\ Returned /\ result = "raised" /\ faults < MaxFaults
    /\ Len(log) > 1
    /\ log[Len(log)].at = "ext_2" /\ ~log[Len(log)].ok

CreateLabels == {"create_nyc", "create_ca_1", "create_ca_2", "create_ca_3"}

\* C20: what the statements of an invocation have done stays when a later
\* statement fails: a table that was created exists, and a table whose merge
\* succeeded holds the rows merged, also after the invocation has raised.
C20_NoRollback ==
    \A i \in 1..Len(log) :
        /\ (log[i].at \in CreateLabels /\ log[i].ok) => log[i].table \in db.tables
        /\ (StepOf(log[i].at) = 4 /\ log[i].ok) =>
              db.rows[log[i].table] = Merge(log[i].table, <<>>, dataset[log[i].table]).rows

C20_Witness ==
    /\ Returned /\ request # "Delete" /\ result = "raised"
    /\ err.at \in {"ca_import", "ca_merge"}
    /\ Loaded("nyc_crashes") /\ db.rows["nyc_crashes"] # <<>>
    /\ Configured(err.table) /\ dataset[err.table] # <<>>
    /\ db.rows[err.table] = <<>>

\* ---------------------------------------------------------------- C22

\* The log entries that create a staging table
StagingCreated == {i \in 1..Len(log) : StepOf(log[i].at) = 2 /\ log[i].ok}

\* C22: the files are loaded one after another: the cleanup drop of one
\* file's staging table succeeds before the staging table of the next file is
\* created, so the database holds at most one staging table at any moment,
\* and none when the invocation returns "complete".
C22_OneStagingTable ==
    /\ Cardinality(db.staging) <= 1
    /\ (Returned /\ result = "complete") => db.staging = {}
    /\ request # "Delete" =>
          \A i \in StagingCreated : \A j \in StagingCreated :
              i < j =>
                 /\ log[i].table # log[j].table
                 /\ \E k \in (i + 1)..(j - 1) :
                       /\ StepOf(log[k].at) = 5 /\ log[k].ok
                       /\ log[k].table = log[i].table

C22_Witness ==
    /\ request # "Delete"
    /\ Cardinality(StagingCreated) > 1
    /\ db.staging # {}

\* ---------------------------------------------------------------- C26

DeleteLabels == {"delete_terminate", "delete_drop"}

\* C26: every invocation whose RequestType is not "Delete" (Create, Update,
\* no RequestType, an event that is no mapping) takes the load path: its
\* first statements are the destructive reset, after which the database holds
\* nothing of what was loaded before, and it returns "complete" only with
\* every configured file merged; only a Delete takes the cleanup path, which
\* issues no statement of the load path and returns "skipped".
C26_OnlyDeleteSkipsReset ==
    runs > 0 =>
        /\ request = (IF event.mapping THEN event.RequestType ELSE "None")
        /\ request = "Delete" =>
              /\ \A i \in 1..Len(log) : log[i].at \in DeleteLabels
              /\ Returned => result = "skipped"
        /\ request # "Delete" =>
              /\ result # "skipped"
              /\ \A i \in 1..Len(log) :
                    /\ log[i].at \notin DeleteLabels
                    /\ i <= Len(ResetLabels) => log[i].at = ResetLabels[i]
              /\ pc = "ext_1" => db = NewDatabase
              /\ (Returned /\ result = "complete") =>
                    /\ Len(log) > Len(ResetLabels)
                    /\ \A t \in Tables : Configured(t) => Loaded(t)

C26_Witness ==
    /\ request = "Update" /\ pc = "ext_1"
    /\ prev.result = "complete" /\ prev.db.rows["nyc_crashes"] # <<>>
    /\ db.rows["nyc_crashes"] = <<>>

\* ---------------------------------------------------------------- C28

\* C28: a Delete issues SQL only with CLUSTER_IDENTIFIER set and after the
\* wait for the cluster succeeded, and DROP DATABASE only after the
\* termination of the connections succeeded; without the identifier, or when
\* the wait raised, it issues no statement and the database stays as the
\* invocation found it.
C28_DropOnlyAfterWait ==
    (runs > 0 /\ request = "Delete") =>
        /\ log # <<>> => clusterId
        /\ log = <<>> => db = prev.db
        /\ (Returned /\ injected /\ FailedAt = {}) => log = <<>>
        /\ \A i \in 1..Len(log) :
              log[i].at = "delete_drop" =>
                 i = 2 /\ log[1].at = "delete_terminate" /\ log[1].ok

C28_Witness ==
    /\ request = "Delete" /\ Returned /\ clusterId
    /\ injected /\ log = <<>>
    /\ prev.result = "complete" /\ db.exists /\ db.rows["nyc_crashes"] # <<>>

\* ---------------------------------------------------------------- C24

\* C24: a boolean column of a row merged into a California table is true
\* exactly when the source text is the literal "True", null exactly when the
\* source text is empty, and false for every other text ("true", "1" and
\* "False" included).
C24_BooleanIsLiteralTrue ==
    (Merged /\ lastMerge.ok /\ lastMerge.table = "ca_injuredwitnesspassengers") =>
        \A i \in 1..Len(lastMerge.staged) :
            WrittenFrom(i) =>
                LET t == lastMerge.table
                    r == lastMerge.staged[i]
                    d == lastMerge.after[IndexOfKey(t, lastMerge.after,
                                                    Cast(r[PrimaryKey(t)]))]
                IN  /\ d.is_witness_only = Some(TRUE)
                          <=> r.is_witness_only = <<"T", "r", "u", "e">>
                    /\ d.is_witness_only = Null <=> r.is_witness_only = <<>>
                    /\ d.is_witness_only = Some(FALSE)
                          <=> r.is_witness_only \notin {<<>>, <<"T", "r", "u", "e">>}

C24_Witness ==
    /\ Merged /\ lastMerge.ok /\ lastMerge.table = "ca_injuredwitnesspassengers"
    /\ \E i, j \in 1..Len(lastMerge.staged) :
          /\ WrittenFrom(i) /\ WrittenFrom(j)
          /\ lastMerge.staged[i].is_witness_only = <<"T", "r", "u", "e">>
          /\ lastMerge.staged[j].is_witness_only \in {<<"t", "r", "u", "e">>, <<"1">>}
    /\ \E i \in 1..Len(lastMerge.after) : lastMerge.after[i].is_witness_only = Some(FALSE)

\* ---------------------------------------------------------------- C27

\* The statements of the load of table t issued so far
LoadSteps(t) == {i \in 1..Len(log) : log[i].table = t /\ StepOf(log[i].at) \in 1..5}

\* C27: a California file is loaded exactly when its bare file name is an
\* element of CA_DATA_KEYS: no statement of its load is issued otherwise, an
\* invocation that completes has merged it if and only if the name is
\* configured and leaves the table of a file not configured empty, and the
\* object key of every California import is the bare file name.
C27_LoadedIffBareNameConfigured ==
    (runs > 0 /\ request # "Delete") =>
        \A j \in 1..Len(CA_TABLE_MAPPING) :
            LET f == CA_TABLE_MAPPING[j].csv_file
                t == CA_TABLE_MAPPING[j].table_name
            IN  /\ LoadSteps(t) # {} => f \in cakeys
                /\ (Returned /\ result = "complete") =>
                      /\ Loaded(t) <=> f \in cakeys
                      /\ f \notin cakeys => (t \in db.tables /\ db.rows[t] = <<>>)
                /\ \A i \in LoadSteps(t) : log[i].at = "ca_import" => log[i].key = f

C27_Witness ==
    /\ request # "Delete" /\ Returned /\ result = "complete"
    /\ "ca/2025parties.csv" \in cakeys
    /\ dataset["ca_parties"] # <<>> /\ db.rows["ca_parties"] = <<>>
    /\ \E i \in LoadSteps("ca_crashes") :
          log[i].at = "ca_import" /\ log[i].ok /\ log[i].key = "2025crashes.csv"

\* ---------------------------------------------------------- C23, C25

Started == pc \notin {"cold", "failed"}

\* C23: with DATA_BUCKET, NYC_DATA_KEY, CA_DATA_KEYS, CLUSTER_ARN, SECRET_ARN
\* or DATABASE_NAME missing the module fails at its start: no invocation
\* begins, no statement is issued, no cluster wait is made and the database
\* is not touched; with the six set the start does not fail, whether or not
\* CLUSTER_IDENTIFIER and the region are set.
C23_MissingConfigFailsAtStartup ==
    LET required == {"DATA_BUCKET", "NYC_DATA_KEY", "CA_DATA_KEYS", "CLUSTER_ARN",
                     "SECRET_ARN", "DATABASE_NAME"}
    IN  /\ (\E n \in required : n \notin env) =>
              /\ ~Started
              /\ runs = 0 /\ log = <<>> /\ faults = 0 /\ ~injected
              /\ db \in {NoDatabase, ReadyDatabase}
        /\ (required \subseteq env) => pc # "failed"

C23_Witness ==
    /\ pc = "failed" /\ result = "raised"
    /\ "CA_DATA_KEYS" \notin env
    /\ {"DATA_BUCKET", "NYC_DATA_KEY", "CLUSTER_ARN", "SECRET_ARN", "DATABASE_NAME",
        "CLUSTER_IDENTIFIER"} \subseteq env

\* C25: started in the environment the stack gives the populator function,
\* the module loads, so that the handler can run.
C25_InfraProvidesRequired ==
    env \in {InfraEnvironment, InfraEnvironment \cup {"AWS_REGION"}} => pc # "failed"

\* ---------------------------------------------------------------- C29

\* C29: the PhysicalResourceId of an invocation is the one its event carries
\* when that is not empty, and otherwise the default built from
\* CLUSTER_IDENTIFIER (or "crashes") and "-populator", on the load path and
\* on the Delete path alike; an invocation whose event passes back the id of
\* the invocation before has that same id.
C29_ResourceIdStable ==
    runs > 0 =>
        /\ physical_resource_id =
              IF event.mapping /\ event.PhysicalResourceId \notin {"None", ""}
              THEN event.PhysicalResourceId
              ELSE IF clusterId THEN "cluster-populator" ELSE "crashes-populator"
        /\ (runs > 1 /\ event.mapping /\ event.PhysicalResourceId = prev.id) =>
              physical_resource_id = prev.id

C29_Witness ==
    /\ Returned /\ request = "Delete" /\ result = "skipped"
    /\ prev.result = "complete" /\ prev.id = "custom"
    /\ event.PhysicalResourceId = "custom" /\ physical_resource_id = "custom"

\* ---------------------------------------------------------------- C30

\* C30: while a response stream is generated current_agent is the agent of
\* that stream, and it is None when no stream is active, in every
\* interleaving of two chat requests.
C30_CurrentAgentOfStream ==
    /\ \A s \in Streams : Active(s) => chat.current_agent = s
    /\ (\A s \in Streams : ~Active(s)) => chat.current_agent = 0

\* ---------------------------------------------------------------- C21

\* The other invocation has dropped the database
OtherHasReset ==
    \E i \in 1..Len(other.log) : other.log[i].at = "drop_database" /\ other.log[i].ok

\* What this invocation has lost: it raised, or it returned "complete" and
\* the database is not the one its load alone leaves
Lost == Returned /\ (result = "raised" \/ (result = "complete" /\ db # FreshRun))

====
